---- MODULE Spec2Model ----
(***************************************************************************)
(* Model of src/bpf/pid_iter.bpf.c: the task_file iterator program         *)
(* bpftop_iter, which is run once per (task, file) pair of a traversal and *)
(* appends one struct pid_iter_entry per call to the iterator's seq_file.  *)
(*                                                                         *)
(* Pointers are addresses (0 is NULL); kernel objects live in tables keyed *)
(* by address.  A probe read of an address that is not mapped faults, and  *)
(* a faulting probe read zeroes its destination.                           *)
(***************************************************************************)
EXTENDS Integers, Sequences, FiniteSets

\* ---------------------------------------------------------------- bounds
\* pairs one traversal presents
MaxPairs == 3
\* records that fit in the seq_file buffer of the traversal
MaxRecords == 2
\* length of the longest name found in the memory of a group leader
MaxNameLen == 17

\* ------------------------------------------------------ program constants
\* char comm[16]
CommSize == 16
\* errno values the helpers return
EFAULT == 14
EOVERFLOW == 75

NULL == 0

\* ------------------------------------------------- kernel memory snapshot
\* "loader"
LoaderName == <<108, 111, 97, 100, 101, 114>>

\* a name of n non-NUL bytes
NameOfLen(n) == [i \in 1..n |-> 97 + (i % 26)]

\* addresses of the task_structs of the snapshot
Tasks == 1..6

\* task_struct fields read by the program: pid, tgid, group_leader
\*   1: leader of process 4242 ("loader")     2: second thread of 4242
\*   3: leader of process 7, 15-byte name     4: leader of process 9, whose
\*   name memory holds no NUL within MaxNameLen bytes (lockless read racing
\*   with a rename)                            5: task whose group_leader
\*   pointer is not readable (task being torn down)
\*   6: leader of process 12, whose name memory holds exactly CommSize
\*   non-NUL bytes
TaskMem ==
    [t \in Tasks |->
        CASE t = 1 -> [pid |-> 4242, tgid |-> 4242, group_leader |-> 1]
          [] t = 2 -> [pid |-> 4243, tgid |-> 4242, group_leader |-> 1]
          [] t = 3 -> [pid |-> 7,    tgid |-> 7,    group_leader |-> 3]
          [] t = 4 -> [pid |-> 9,    tgid |-> 9,    group_leader |-> 4]
          [] t = 6 -> [pid |-> 12,   tgid |-> 12,   group_leader |-> 6]
          [] OTHER -> [pid |-> 11,   tgid |-> 10,   group_leader |-> NULL]]

\* the bytes of task->comm up to (not including) the first NUL
CommMem ==
    [t \in Tasks |->
        CASE t = 1 -> LoaderName
          [] t = 2 -> <<119, 111, 114, 107, 101, 114>>
          [] t = 3 -> NameOfLen(CommSize - 1)
          [] t = 4 -> NameOfLen(MaxNameLen)
          [] t = 6 -> NameOfLen(CommSize)
          [] OTHER -> <<120>>]

\* addresses of the struct files of the snapshot
Files == 1..4

\* addresses of what private_data can point to
ProgA == 101
ProgB == 102
SockObj == 103
\* addresses of bpf_prog_aux structs, and of the word a non-program object
\* holds where a bpf_prog holds aux
AuxA == 201
AuxB == 202
JunkAux == 203

\* struct file fields: f_op (is it bpf_prog_fops) and private_data
\*   1: program 17    2: program 5    3: regular file, private_data NULL
\*   4: socket, private_data points to an object that is not a bpf_prog
FileMem ==
    [f \in Files |->
        CASE f = 1 -> [is_prog_fops |-> TRUE,  private_data |-> ProgA]
          [] f = 2 -> [is_prog_fops |-> TRUE,  private_data |-> ProgB]
          [] f = 3 -> [is_prog_fops |-> FALSE, private_data |-> NULL]
          [] OTHER -> [is_prog_fops |-> FALSE, private_data |-> SockObj]]

\* identifier of the loaded program a bpf_prog address stands for
ProgId(p) == IF p = ProgA THEN 17 ELSE 5

\* ------------------------------------------------------------------ state
VARIABLES
    prog_fops_resolved, \* did the loader resolve the weak ksym bpf_prog_fops
    ctx,                \* the (task, file) pair of the latest call
    seq,                \* ctx->meta->seq: the records written so far
    seq_overflow,       \* the seq_file's overflow mark
    ret,                \* return value of the latest call
    seq_num,            \* number of pairs presented so far
    emitter,            \* history: for each record of seq, the call and pair
                        \* that wrote it
    last_skip           \* history: seq_num of the latest call that took the
                        \* early return, 0 when none did

vars == <<prog_fops_resolved, ctx, seq, seq_overflow, ret, seq_num, emitter,
          last_skip>>

\* ------------------------------------------------------------ field loads
\* A load through a kernel pointer that faults leaves 0 in its destination.
task_tgid(t) == IF t \in Tasks THEN TaskMem[t].tgid ELSE 0

task_pid(t) == IF t \in Tasks THEN TaskMem[t].pid ELSE 0

task_group_leader(t) == IF t \in Tasks THEN TaskMem[t].group_leader ELSE NULL

file_private_data(f) == IF f \in Files THEN FileMem[f].private_data ELSE NULL

\* bpf_probe_read_kernel of ((struct bpf_prog *)p)->aux
ReadAux(p) ==
    CASE p = ProgA   -> [err |-> 0, val |-> AuxA]
      [] p = ProgB   -> [err |-> 0, val |-> AuxB]
      [] p = SockObj -> [err |-> 0, val |-> JunkAux]
      [] OTHER       -> [err |-> -EFAULT, val |-> 0]

\* bpf_probe_read_kernel of ((struct bpf_prog_aux *)a)->id
ReadAuxId(a) ==
    CASE a = AuxA    -> [err |-> 0, val |-> ProgId(ProgA)]
      [] a = AuxB    -> [err |-> 0, val |-> ProgId(ProgB)]
      [] a = JunkAux -> [err |-> 0, val |-> 99]
      [] OTHER       -> [err |-> -EFAULT, val |-> 0]

\* BPF_CORE_READ(p, aux, id): two chained probe reads; the second reads the
\* four bytes of the __u32 id at whatever address the first one produced
BPF_CORE_READ_aux_id(p) == ReadAuxId(ReadAux(p).val).val

Zeros(n) == [i \in 1..n |-> 0]

Min(a, b) == IF a < b THEN a ELSE b

\* variant: copies up to size bytes and writes no terminator
bpf_probe_read_kernel_str_noterm(dst, size, leader) ==
    IF leader \notin Tasks
    THEN [buf |-> Zeros(size) \o SubSeq(dst, size + 1, Len(dst)),
          err |-> -EFAULT]
    ELSE LET src == CommMem[leader]
             n == Min(Len(src), size)
         IN [buf |-> SubSeq(src, 1, n) \o SubSeq(dst, n + 1, Len(dst)),
             err |-> n]

\* bpf_probe_read_kernel_str(dst, size, src) where src is the comm of the
\* task at address leader: copies at most size - 1 bytes and a NUL, leaves
\* the rest of dst alone; a fault zeroes size bytes of dst.
bpf_probe_read_kernel_str(dst, size, leader) ==
    IF leader \notin Tasks
    THEN [buf |-> Zeros(size) \o SubSeq(dst, size + 1, Len(dst)),
          err |-> -EFAULT]
    ELSE LET src == CommMem[leader]
             n == Min(Len(src), size - 1)
         IN [buf |-> SubSeq(src, 1, n) \o <<0>> \o SubSeq(dst, n + 2, Len(dst)),
             err |-> n + 1]

\* variant: a full buffer has its newest record overwritten
bpf_seq_write_overwrite(s, e) ==
    IF Len(s) < MaxRecords
    THEN [seq |-> Append(s, e), err |-> 0]
    ELSE [seq |-> [s EXCEPT ![Len(s)] = e], err |-> -EOVERFLOW]

\* variant: the record is put in front of the earlier ones
bpf_seq_write_front(s, e) ==
    IF Len(s) < MaxRecords
    THEN [seq |-> <<e>> \o s, err |-> 0]
    ELSE [seq |-> s, err |-> -EOVERFLOW]

\* bpf_seq_write(seq, &e, sizeof(e)): appends when the record fits, else
\* marks the seq_file overflowed and writes nothing
bpf_seq_write(s, e) ==
    IF Len(s) < MaxRecords
    THEN [seq |-> Append(s, e), err |-> 0]
    ELSE [seq |-> s, err |-> -EOVERFLOW]

\* ---------------------------------------------------------- the program
\* variant: if (!file && !task)
InputAbsent_both(c) == c.file = NULL /\ c.task = NULL

\* if (!file || !task)
InputAbsent(c) == c.file = NULL \/ c.task = NULL

\* variant: no memset, e holds what the stack held
ZeroEntry_uninit ==
    [id |-> 170, pid |-> 170, comm |-> [i \in 1..CommSize |-> 170]]

\* __builtin_memset(&e, 0, sizeof(e))
ZeroEntry == [id |-> 0, pid |-> 0, comm |-> Zeros(CommSize)]

\* variant: e.pid = task->pid
EntryPid_thread(c) == task_pid(c.task)

\* e.pid = task->tgid
EntryPid(c) == task_tgid(c.task)

\* variant: e.id = BPF_CORE_READ(..., aux), the last accessor left out
EntryId_aux(c) == ReadAux(file_private_data(c.file)).val

\* e.id = BPF_CORE_READ((struct bpf_prog *)file->private_data, aux, id)
EntryId(c) == BPF_CORE_READ_aux_id(file_private_data(c.file))

\* variant: a failed write is reported to the caller
ReturnCode_err(write_err) == IF write_err # 0 THEN 1 ELSE 0

\* the value returned after the write: return 0
ReturnCode(write_err) == 0

\* the record the program builds for the pair c
BuildEntry(c) ==
    LET e0 == ZeroEntry
        e1 == [e0 EXCEPT !.pid = EntryPid(c)]
        e2 == [e1 EXCEPT !.id = EntryId(c)]
        r  == bpf_probe_read_kernel_str(e2.comm, CommSize,
                                        task_group_leader(c.task))
    IN [e2 EXCEPT !.comm = r.buf]

Contexts == [task : Tasks \cup {NULL}, file : Files \cup {NULL}]

\* one call of the program on the pair c
bpftop_iter(c) ==
    /\ ret = 0
    /\ seq_num < MaxPairs
    /\ ctx' = c
    /\ seq_num' = seq_num + 1
    /\ IF InputAbsent(c)
       THEN /\ ret' = 0
            /\ last_skip' = seq_num + 1
            /\ UNCHANGED <<seq, seq_overflow, emitter>>
       ELSE LET w == bpf_seq_write(seq, BuildEntry(c))
            IN /\ seq' = w.seq
               /\ seq_overflow' = (seq_overflow \/ w.err # 0)
               /\ emitter' = IF w.err = 0
                             THEN Append(emitter, [n |-> seq_num + 1,
                                                   task |-> c.task,
                                                   file |-> c.file])
                             ELSE emitter
               /\ ret' = ReturnCode(w.err)
               /\ UNCHANGED last_skip
    /\ UNCHANGED prog_fops_resolved

Init ==
    /\ prog_fops_resolved \in BOOLEAN
    /\ ctx = [task |-> NULL, file |-> NULL]
    /\ seq = <<>>
    /\ seq_overflow = FALSE
    /\ ret = 0
    /\ seq_num = 0
    /\ emitter = <<>>
    /\ last_skip = 0

Next == \E c \in Contexts : bpftop_iter(c)

Spec == Init /\ [][Next]_vars

TypeOK ==
    /\ prog_fops_resolved \in BOOLEAN
    /\ ctx \in Contexts
    /\ Len(seq) <= MaxRecords
    /\ Len(emitter) = Len(seq)
    /\ seq_num \in 0..MaxPairs

\* ------------------------------------------------- vocabulary of the claims
\* both pointers of the pair are set
Present(c) == c.task # NULL /\ c.file # NULL

\* the file is an open handle on a loaded program
IsProgramFile(f) == f \in Files /\ FileMem[f].is_prog_fops

\* the identifier of the program the file refers to
TrueProgId(f) == ProgId(FileMem[f].private_data)

\* one of the two probe reads of the identifier faults
IdReadFails(f) ==
    \/ ReadAux(file_private_data(f)).err # 0
    \/ ReadAuxId(ReadAux(file_private_data(f)).val).err # 0

\* the read of the group leader's name faults
NameReadFails(t) == task_group_leader(t) \notin Tasks

\* number of comm bytes the name copy writes for the task t
NameBytesWritten(t) ==
    IF NameReadFails(t) THEN CommSize
    ELSE Min(Len(CommMem[task_group_leader(t)]), CommSize - 1) + 1

\* the call just made appended exactly the record r to the end of seq
AppendedOne == Len(seq') = Len(seq) + 1 /\ SubSeq(seq', 1, Len(seq)) = seq

\* ------------------------------------------------------------------ C1
\* C1: a record is emitted only for a handle on a loaded program: when
\* bpf_prog_fops is resolvable, a call on a pair whose file is not a BPF
\* program file appends nothing to the output sequence.
C1_NoRecordForNonProgram ==
    [][(Present(ctx') /\ prog_fops_resolved /\ ~IsProgramFile(ctx'.file))
          => seq' = seq]_vars

\* ------------------------------------------------------------------ C2
\* C2 as stated: every call on a present pair whose file refers to a loaded
\* program appends exactly one record, whose id is that program's identifier.
C2_ProgramPairAppendsOne ==
    [][(Present(ctx') /\ IsProgramFile(ctx'.file))
          => (AppendedOne /\ seq'[Len(seq')].id = TrueProgId(ctx'.file))]_vars

\* C2 amended: every call on a present pair whose file refers to a loaded
\* program, made while the output sequence has room, appends exactly one
\* record, whose id is the identifier of the program that very file refers to.
C2_ProgramPairAppendsOneIfRoom ==
    [][(Present(ctx') /\ IsProgramFile(ctx'.file) /\ Len(seq) < MaxRecords)
          => (AppendedOne /\ seq'[Len(seq')].id = TrueProgId(ctx'.file))]_vars

\* two program handles visited one after the other, each with its own id
C2_Witness ==
    /\ Len(seq) = 2
    /\ emitter[1].file = 1 /\ seq[1].id = 17
    /\ emitter[2].file = 2 /\ seq[2].id = 5
    /\ emitter[2].n = seq_num /\ ctx.file = 2

\* ------------------------------------------------------------------ C3
\* C3: the filter policy is fixed at load time by the probe of bpf_prog_fops:
\* the probe's outcome never changes, an instance whose probe resolved never
\* attempts an emission for a file that is not a program file (strict), and
\* an instance whose probe did not resolve attempts one for every present
\* pair (permissive).
C3_PolicyFollowsProbe ==
    [][/\ prog_fops_resolved' = prog_fops_resolved
       /\ (Present(ctx') /\ prog_fops_resolved /\ ~IsProgramFile(ctx'.file))
             => (seq' = seq /\ seq_overflow' = seq_overflow)
       /\ (Present(ctx') /\ ~prog_fops_resolved)
             => (seq' # seq \/ seq_overflow')]_vars

\* ------------------------------------------------------------------ C4
\* C4: a call with an absent task or an absent file leaves the output
\* sequence as it was and returns 0, the value on which the traversal goes on
\* to the next pair.
C4_AbsentInputSkips ==
    [][(ctx'.task = NULL \/ ctx'.file = NULL)
          => (seq' = seq /\ seq_overflow' = seq_overflow /\ ret' = 0)]_vars

\* a pair visited after an absent one has emitted
C4_Witness ==
    /\ last_skip > 0
    /\ Len(seq) > 0
    /\ emitter[Len(emitter)].n > last_skip
    /\ seq = <<BuildEntry(ctx)>>

\* ------------------------------------------------------------------ C5
\* C5: the pid of every record of the output sequence is the tgid of the task
\* of the pair whose call wrote it.
C5_PidIsTgidOfEmitter ==
    /\ Len(emitter) = Len(seq)
    /\ \A i \in 1..Len(seq) : seq[i].pid = TaskMem[emitter[i].task].tgid

\* a thread that is not its group's leader, then a task of another process
C5_Witness ==
    /\ Len(seq) = 2
    /\ emitter[1].task = 2 /\ seq[1].pid = 4242
    /\ emitter[2].task = 3 /\ seq[2].pid = 7

\* ------------------------------------------------------------------ C6
\* C6: the comm of every record is exactly CommSize bytes and holds a NUL;
\* it starts with the first min(length, CommSize - 1) bytes of the group
\* leader's name followed by a NUL, so a name of CommSize bytes or more is
\* cut to CommSize - 1 bytes and a terminator.
C6_CommTerminated ==
    \A i \in 1..Len(seq) :
        LET comm == seq[i].comm
            leader == task_group_leader(emitter[i].task)
        IN /\ Len(comm) = CommSize
           /\ \E k \in 1..CommSize : comm[k] = 0
           /\ leader \in Tasks =>
                 LET n == Min(Len(CommMem[leader]), CommSize - 1)
                 IN /\ SubSeq(comm, 1, n) = SubSeq(CommMem[leader], 1, n)
                    /\ comm[n + 1] = 0

\* records of a name longer than the field and of one exactly as long
C6_Witness ==
    /\ Len(seq) = 2
    /\ emitter[1].task = 4 /\ emitter[2].task = 6
    /\ \A i \in 1..2 : seq[i].comm[CommSize - 1] # 0 /\ seq[i].comm[CommSize] = 0

\* ------------------------------------------------------------------ C7
\* C7: a call on a present pair made while the output sequence is full
\* leaves every record of it as it was and returns 0.
C7_FullDropsSilently ==
    [][(Present(ctx') /\ Len(seq) = MaxRecords)
          => (seq' = seq /\ ret' = 0)]_vars

\* the latest call found the sequence full
C7_Witness ==
    /\ Present(ctx)
    /\ seq_overflow
    /\ Len(seq) = MaxRecords
    /\ emitter[Len(emitter)].n < seq_num
    /\ BuildEntry(ctx) # seq[Len(seq)]
    /\ ret = 0

\* ------------------------------------------------------------------ C8
\* C8: each call leaves the output sequence unchanged or appends exactly one
\* record at its end, and the records stand in the order their pairs were
\* visited.
C8_AppendOnlyInVisitOrder ==
    [][/\ seq' = seq \/ AppendedOne
       /\ Len(emitter') = Len(seq')
       /\ \A i \in 1..Len(seq') : seq'[i] = BuildEntry(emitter'[i])
       /\ \A i, j \in 1..Len(seq') : i < j => emitter'[i].n < emitter'[j].n]_vars

\* two different records with a pair that emitted nothing between them
C8_Witness ==
    /\ Len(seq) = 2
    /\ seq[1] # seq[2]
    /\ emitter[1].n = 1
    /\ emitter[2].n = 3

\* ------------------------------------------------------------------ C9
\* C9: every call returns 0.
C9_AlwaysContinue == [][ret' = 0]_vars

\* a failed identifier read, a failed name read, a successful emission and a
\* failed write have all happened
C9_Witness ==
    /\ seq_overflow
    /\ Present(ctx)
    /\ \E i \in 1..Len(seq) : emitter[i].task = 5 /\ emitter[i].file = 3
    /\ ret = 0

\* ----------------------------------------------------------------- C10
\* C10 as stated: whenever a read of the identifier or of the name fails the
\* record is still appended, with id 0 for a failed identifier read, with a
\* zero comm for a failed name read, and with the task's tgid as pid.
C10_FailedReadStillAppends ==
    [][(Present(ctx') /\ (IdReadFails(ctx'.file) \/ NameReadFails(ctx'.task)))
          => /\ AppendedOne
             /\ IdReadFails(ctx'.file) => seq'[Len(seq')].id = 0
             /\ NameReadFails(ctx'.task)
                   => seq'[Len(seq')].comm = Zeros(CommSize)
             /\ seq'[Len(seq')].pid = task_tgid(ctx'.task)]_vars

\* C10 amended: while the output sequence has room, a call on a present pair
\* appends its record whether or not a read fails: id is 0 after a failed
\* identifier read, every comm byte the name copy did not write is 0 (all of
\* them after a failed name read), and pid is the task's tgid.
C10_FailedReadStillAppendsIfRoom ==
    [][(Present(ctx') /\ Len(seq) < MaxRecords)
          => /\ AppendedOne
             /\ IdReadFails(ctx'.file) => seq'[Len(seq')].id = 0
             /\ NameReadFails(ctx'.task)
                   => seq'[Len(seq')].comm = Zeros(CommSize)
             /\ \A k \in 1..CommSize :
                   k > NameBytesWritten(ctx'.task)
                      => seq'[Len(seq')].comm[k] = 0
             /\ seq'[Len(seq')].pid = task_tgid(ctx'.task)]_vars

\* the latest call failed both reads and appended its record
C10_Witness ==
    /\ ctx = [task |-> 5, file |-> 3]
    /\ Len(seq) > 0
    /\ emitter[Len(emitter)].n = seq_num
    /\ seq[Len(seq)] = [id |-> 0, pid |-> 10, comm |-> Zeros(CommSize)]

====
